---- MODULE Spec2Model ----
(***************************************************************************)
(* Reminder pipeline of the subscription-tracking backend:                 *)
(*   app/services/reminder_service.py   the reminder check                 *)
(*   app/services/email_service.py      the dispatch of one reminder       *)
(*   app/scheduler/reminder_scheduler.py the daily job and manual trigger  *)
(*   app/routers/reminders.py           the two HTTP endpoints             *)
(*                                                                         *)
(* The process is one asyncio event loop: code between two awaits that     *)
(* suspend is one atomic step.  The only suspending await of a reminder    *)
(* check is the mail transport call inside send_reminder_email (the store  *)
(* and identity calls are synchronous), so a check is one step up to its   *)
(* first transport call and one step per completed transport call after.   *)
(***************************************************************************)
EXTENDS Integers, Sequences, FiniteSets, TLC

VARIABLES
    today,           \* date.today(), as a day number
    store,           \* the rows of the "subscriptions" table
    smtp_configured, \* EmailService: smtp_user and smtp_password are both set
    message,         \* the message built by the last direct call of send_reminder_email
    runs,            \* per task slot: the reminder check it executes / executed last
    is_running,      \* ReminderScheduler.is_running
    jobs,            \* job ids in the job store of the AsyncIOScheduler
    pending,         \* job ids added while the AsyncIOScheduler was stopped
    scheduler_running, \* AsyncIOScheduler.running
    last_call,       \* the last call of start() / stop() and what it did
    instances,       \* running instances of the daily job (executor bookkeeping)
    last_firing,     \* what the last firing of the daily trigger did
    upcoming,        \* last answer of GET /reminders/upcoming
    accounts,        \* per user: user_metadata.account_type, and a row in business_profiles
    requests         \* per request slot: the POST /subscriptions request it serves

vars == <<today, store, smtp_configured, message, runs, is_running, jobs, pending,
          scheduler_running, last_call, instances,
          last_firing, upcoming, accounts, requests>>

----------------------------------------------------------------------------
(* Bounds of the model *)

MaxSubs == 2          \* rows in the store
MaxRuns == 2          \* task slots: checks that may be in flight at once
MaxPending == 2       \* jobs kept pending by starts that failed
MaxDay == 2           \* the last day the calendar reaches
MaxDaysUntil == 7     \* the largest days_until a message is built for
MaxRequests == 2      \* POST /subscriptions requests that may be in flight at once
MaxCreated == 7       \* rows of one user that create_subscription may bring the store to

(* Program constants *)

ScanWindowDays == 30          \* timedelta(days=30)
DefaultReminderDays == 7      \* subscription.get("reminderDaysBefore", 7)
MaxInstances == 1             \* add_job(..., max_instances=1)
DefaultUpcomingDays == 7      \* days: int = 7
HTTP_OK == 200
HTTP_ERROR == 500
FreeMaxSubscriptions == 5       \* PLAN_LIMITS["free"]["max_subscriptions"]
PersonalMaxSubscriptions == 5   \* PLAN_LIMITS["personal"]["max_subscriptions"]

DailyJobId == "daily_reminder_check"

RunIds == 1..MaxRuns

RequestIds == 1..MaxRequests

----------------------------------------------------------------------------
(* Input domains *)

\* every row carries the userId of the account that created it
Owners == {"u1", "u2"}

\* nextRenewalDate as stored: a date-only string, a timestamp-with-timezone
\* string with a time of day after midnight (what a client's toISOString()
\* sends), a string that is neither, or no value.  day is the calendar day the
\* string denotes (for a malformed string such as "2025-11-1x": the day prefix
\* it sorts at in the store's range comparison).
InWindowRenewals ==
    { [form |-> "date", day |-> 5],
      [form |-> "date", day |-> 7],
      [form |-> "timestamp", day |-> 7] }

Malformed == [form |-> "malformed", day |-> 7]
Absent == [form |-> "absent", day |-> 0]
BeyondWindow == [form |-> "date", day |-> 31]

\* reminderDaysBefore: <<>> when the row has no such field, <<n>> otherwise
Leads == { <<>>, <<5>>, <<7>> }

\* amount: "number" when the column holds a number, "null" when it holds none
Row(o, d, l, a, e) ==
    [userId |-> o, nextRenewalDate |-> d, reminderDaysBefore |-> l,
     isActive |-> a, reminderEnabled |-> e, amount |-> "number"]

\* Active, reminder-enabled rows of either owner with every date and lead
\* inside the window and with a malformed date; and the rows the candidate
\* query leaves out: inactive, disabled, without a date, beyond the window.
RowChoices ==
    { Row(o, d, l, TRUE, TRUE) :
        o \in Owners, d \in { r \in InWindowRenewals : r.form = "date" }, l \in Leads }
    \cup { Row(o, d, l, TRUE, TRUE) :
        o \in Owners, d \in { r \in InWindowRenewals : r.form = "timestamp" },
        l \in { <<5>>, <<7>> } }
    \cup { Row(o, Malformed, <<7>>, TRUE, TRUE) : o \in Owners }
    \cup { Row("u1", [form |-> "date", day |-> 7], <<7>>, a, e) :
             a \in BOOLEAN, e \in BOOLEAN }
    \cup { Row("u1", d, <<7>>, TRUE, TRUE) : d \in {Absent, BeyondWindow} }

\* rows for the specification of the two endpoints
ApiRows ==
    { Row(o, d, <<7>>, TRUE, TRUE) :
        o \in Owners,
        d \in { [form |-> "date", day |-> 5], [form |-> "date", day |-> 7],
                Malformed } }

\* rows whose reminder is due today, for the specification of the dispatch:
\* with a date-only and a timestamp renewal date, with and without an amount
MailRows ==
    { [Row(o, d, <<7>>, TRUE, TRUE) EXCEPT !.amount = a] :
        o \in Owners,
        d \in { [form |-> "date", day |-> 7], [form |-> "timestamp", day |-> 7] },
        a \in { "number", "null" } }

\* rows for the specification of GET /reminders/upcoming: of the first
\* owner, rows renewing in 7 days whose reminder is due today (with the
\* default lead, as a date and as a timestamp) or in 2 days, one with a
\* malformed date, one inactive, one disabled; of the second owner, one whose
\* reminder is due today
UpcomingRows ==
    { Row("u1", [form |-> "date", day |-> 7], <<>>, TRUE, TRUE),
      Row("u1", [form |-> "timestamp", day |-> 7], <<7>>, TRUE, TRUE),
      Row("u1", [form |-> "date", day |-> 7], <<5>>, TRUE, TRUE),
      Row("u1", Malformed, <<7>>, TRUE, TRUE),
      Row("u1", [form |-> "date", day |-> 7], <<7>>, FALSE, TRUE),
      Row("u1", [form |-> "date", day |-> 7], <<7>>, TRUE, FALSE),
      Row("u2", [form |-> "date", day |-> 7], <<>>, TRUE, TRUE) }

\* rows at the edges of the scan window, each as create_subscription accepts
\* it (reminderDaysBefore >= 1, no upper limit): renewing on the last day of
\* the window as a date and as a timestamp, on the day after it, and in 45
\* days with a lead of 45 days; a row well inside the window; an inactive row
WindowRows ==
    { Row("u1", [form |-> "date", day |-> 30], <<30>>, TRUE, TRUE),
      Row("u1", [form |-> "timestamp", day |-> 30], <<30>>, TRUE, TRUE),
      Row("u1", [form |-> "date", day |-> 31], <<7>>, TRUE, TRUE),
      Row("u1", [form |-> "date", day |-> 45], <<45>>, TRUE, TRUE),
      Row("u2", [form |-> "date", day |-> 7], <<>>, TRUE, TRUE),
      Row("u2", [form |-> "date", day |-> 30], <<30>>, FALSE, TRUE) }

\* one subscription whose reminder is due today, for the specification of
\* the scheduler
DueStore == <<[id |-> 1] @@ Row("u1", [form |-> "date", day |-> 7], <<7>>, TRUE, TRUE)>>

WithIds(f) == [i \in DOMAIN f |-> [id |-> i] @@ f[i]]

StoresOver(rows) ==
    UNION { { WithIds(f) : f \in [1..k -> rows] } : k \in 0..MaxSubs }

\* two candidates of one owner, both due today, and an owner whose only row
\* is inactive
LookupStore ==
    WithIds(<<Row("u1", [form |-> "date", day |-> 7], <<>>, TRUE, TRUE),
              Row("u1", [form |-> "date", day |-> 5], <<5>>, TRUE, TRUE),
              Row("u2", [form |-> "date", day |-> 7], <<>>, FALSE, TRUE)>>)

\* two subscriptions whose reminder is due on day 1, for the specification
\* of the passing days
DaysStore ==
    WithIds(<<Row("u1", [form |-> "date", day |-> 8], <<>>, TRUE, TRUE),
              Row("u1", [form |-> "date", day |-> 6], <<5>>, TRUE, TRUE)>>)

----------------------------------------------------------------------------
(* The store's range filter and the date parsing of the service *)

\* .gte("nextRenewalDate", t.isoformat()).lte("nextRenewalDate", (t + days).isoformat()):
\* the bounds are date-only strings, so a timestamp on the last day of the
\* window lies after the upper bound.
InWindow(d, t, days) ==
    /\ d.form # "absent"          \* a null never satisfies a range predicate
    /\ d.day >= t
    /\ IF d.form = "timestamp" THEN d.day < t + days ELSE d.day <= t + days

\* variant: the query without its isActive predicate
CandidateQueryAnyState(rows, t) ==
    SelectSeq(rows, LAMBDA s :
        s.reminderEnabled /\ InWindow(s.nextRenewalDate, t, ScanWindowDays))

\* the candidate query of check_and_send_reminders (lines 28-34)
CandidateQuery(rows, t) ==
    SelectSeq(rows, LAMBDA s :
        s.isActive /\ s.reminderEnabled /\ InWindow(s.nextRenewalDate, t, ScanWindowDays))

\* datetime.fromisoformat(...) / datetime.strptime(..., "%Y-%m-%d") succeed
ParsesAsDate(d) == d.form \in {"date", "timestamp"}

\* (renewal_date - today).days
DaysUntil(d, t) == d.day - t

\* subscription.get("reminderDaysBefore", 7)
ReminderDaysBefore(s) ==
    IF s.reminderDaysBefore = <<>> THEN DefaultReminderDays ELSE s.reminderDaysBefore[1]

\* variant: an "at most" policy, days_until <= reminder_days_before
ShouldSendByNow(s, t) ==
    DaysUntil(s.nextRenewalDate, t) <= ReminderDaysBefore(s)

\* if days_until == reminder_days_before (line 106)
ShouldSendToday(s, t) ==
    DaysUntil(s.nextRenewalDate, t) = ReminderDaysBefore(s)

----------------------------------------------------------------------------
(* Run summary and the record of one check *)

NewStats == [checked |-> 0, sent |-> 0, failed |-> 0, errors |-> <<>>]

Err(kind, user, sub) == [kind |-> kind, user |-> user, sub |-> sub]

\* pc: "idle" (never used), "sending" (suspended in the transport call of
\* subscriptions[i]), "done" (the check and its caller's handler have ended).
\* History kept beside the program's own data: resolution (what the identity
\* lookups of each owner did), dispatched (the ids send_reminder_email was
\* invoked for), dispatchedOn (the calendar day of each of these
\* invocations), results (what each of these invocations returned),
\* failedFor (the ids stats["failed"] was incremented for), transportCalls
\* (calls of aiosmtplib.send begun), transported (for each call ended:
\* the id it was made for and whether it ended without error).
NotCalled == [primary |-> "not_called", fallback |-> "not_called"]

IdleRun ==
    [pc |-> "idle", origin |-> "none", today |-> 0, queryFailed |-> FALSE,
     subscriptions |-> <<>>, i |-> 0, user_ids |-> {}, user_emails |-> {},
     stats |-> NewStats, resolution |-> [u \in Owners |-> NotCalled],
     lookups |-> [u \in Owners |-> 0],
     dispatched |-> <<>>, dispatchedOn |-> <<>>,
     results |-> <<>>, failedFor |-> <<>>, transportCalls |-> 0,
     transported |-> <<>>, outcome |-> "none", response |-> 0]

\* stats["failed"] += 1; stats["errors"].append(...)
\* variant: failed is incremented without an error entry
CountFailedUnlogged(run, kind, s) ==
    [run EXCEPT !.stats.failed = @ + 1,
                !.failedFor = Append(@, s.id)]

\* stats["failed"] += 1; stats["errors"].append(...)
CountFailed(run, kind, s) ==
    [run EXCEPT !.stats.failed = @ + 1,
                !.stats.errors = Append(@, Err(kind, "", s.id)),
                !.failedFor = Append(@, s.id)]

\* stats["sent"] += 1
CountSent(run) == [run EXCEPT !.stats.sent = @ + 1]

\* return stats (line 133), reached when the loop is exhausted
ReturnStats(run) == [run EXCEPT !.pc = "done", !.outcome = "returned"]

\* the outer handler (lines 135-139) of check_and_send_reminders
OuterHandler(run) ==
    [run EXCEPT !.pc = "done", !.outcome = "returned",
                !.stats.errors = Append(@, Err("reminder_check", "", 0))]

\* variant: the loop without its check of user_emails
EmailAssumedKnown(run, s) == TRUE

\* if not user_id or user_id not in user_emails (line 86), negated
EmailKnown(run, s) == s.userId \in run.user_emails

----------------------------------------------------------------------------
(* send_reminder_email (email_service.py 123-229) *)

\* variant: credentials taken for granted
CredentialsAssumed == TRUE

\* self.smtp_user and self.smtp_password are both set (line 131, negated)
Credentials == smtp_configured

\* the message is built without error (lines 137-196): the renewal date is
\* formatted under its own handler (140-148), but f"{amount:.2f}" (158)
\* raises on a row without a number in amount
Renders(s) == s.amount = "number"

\* send_reminder_email returned False to the loop (lines 111-123)
ReturnedFalse(run, s) ==
    CountFailed([run EXCEPT !.results = Append(@, FALSE)], "send_failed", s)

\* variant: the error leaves send_reminder_email and reaches the handler of
\* the loop body
FormatErrorRaised(run, s) == CountFailed(run, "processing", s)

\* except Exception as e (lines 225-229): return False
FormatErrorHandler(run, s) == ReturnedFalse(run, s)

(* The message (email_service.py 19-116, 137-196).  A text is kept as the
   sequence of its words, of which only the days-until phrase is modelled. *)

\* f"day{'s' if days_until != 1 else ''}" (lines 170, 187)
DayWord(d) == IF d # 1 THEN "days" ELSE "day"

\* message["Subject"] (line 170), after the subscription's name
SubjectText(d) == <<"renews", "in", ToString(d), DayWord(d)>>

\* text_content (lines 176-190): its line about the days
PlainText(d) == <<"Days", "Until", "Renewal:", ToString(d), DayWord(d)>>

\* the template (lines 77-87): {% if days_until > 0 %} ... {{ days_until }} days
\* {% else %} ... Renews today! {% endif %}
RichText(d) ==
    IF d > 0 THEN <<"Days", "Until", "Renewal:", ToString(d), "days">>
    ELSE <<"Renews", "today!">>

NoMessage ==
    [built |-> FALSE, days_until |-> 0, user_name |-> "", category |-> FALSE,
     website |-> FALSE, amount |-> "", subject |-> <<>>, text |-> <<>>,
     html |-> <<>>]

\* send_reminder_email from its first line to the transport call (131-196):
\* the message it has built, if any
BuildMessage(d, user_name, category, website, amount) ==
    LET asked == [NoMessage EXCEPT !.days_until = d, !.category = category,
                                   !.website = website, !.amount = amount]
    IN  IF ~Credentials \/ amount # "number" THEN asked
        ELSE [asked EXCEPT !.built = TRUE,
                           !.user_name = IF user_name = "" THEN "User" ELSE user_name,
                           !.subject = SubjectText(d),
                           !.text = PlainText(d),
                           !.html = RichText(d)]

----------------------------------------------------------------------------
\* the loop over subscriptions (lines 83-130), from subscriptions[run.i] on, up
\* to the next suspending transport call or the end of the loop
RECURSIVE ProcessFrom(_)
ProcessFrom(run) ==
    IF run.i > Len(run.subscriptions) THEN ReturnStats(run)
    ELSE
      LET s == run.subscriptions[run.i]
          next(r) == ProcessFrom([r EXCEPT !.i = @ + 1])
      IN  IF ~EmailKnown(run, s)
            THEN next(CountFailed(run, "email_not_found", s))
          ELSE IF s.nextRenewalDate.form = "absent"
            THEN next(run)
          ELSE IF ~ParsesAsDate(s.nextRenewalDate)
            THEN next(CountFailed(run, "processing", s))
          ELSE IF ShouldSendToday(s, run.today)
            THEN LET called == [run EXCEPT !.dispatched = Append(@, s.id),
                                           !.dispatchedOn = Append(@, today)]
                 IN  IF ~Credentials THEN next(ReturnedFalse(called, s))
                     ELSE IF ~Renders(s) THEN next(FormatErrorHandler(called, s))
                     ELSE [called EXCEPT !.pc = "sending",
                                           !.transportCalls = @ + 1]
          ELSE next(run)

\* variant: a failed dispatch ends the loop
AfterSendAborting(run, ok) ==
    LET s == run.subscriptions[run.i]
        got == [run EXCEPT !.results = Append(@, ok),
                           !.transported = Append(@, [sub |-> s.id, ok |-> ok])]
    IN  IF ok THEN ProcessFrom([CountSent(got) EXCEPT !.i = @ + 1])
        ELSE ReturnStats(CountFailed(got, "send_failed", s))

\* the transport call of subscriptions[run.i] ended: send_reminder_email
\* returns True (ok) or False (lines 118-123), and the loop goes on
AfterSend(run, ok) ==
    LET s == run.subscriptions[run.i]
        got == [run EXCEPT !.results = Append(@, ok),
                           !.transported = Append(@, [sub |-> s.id, ok |-> ok])]
        counted == IF ok THEN CountSent(got) ELSE CountFailed(got, "send_failed", s)
    IN  ProcessFrom([counted EXCEPT !.i = @ + 1])

----------------------------------------------------------------------------
(* Identity resolution (lines 45-80) *)

\* what the two lookups of one owner do: auth.admin.get_user_by_id returns a
\* user, returns none, or raises; only then the table("auth.users") query is
\* made, which returns a row with an email, returns nothing, or raises too.
\* (Every account is created with an email: routers/auth.py sign_up.)
ResolveOutcomes ==
    { [primary |-> "user", fallback |-> "not_called"],
      [primary |-> "no_user", fallback |-> "not_called"],
      [primary |-> "raises", fallback |-> "row"],
      [primary |-> "raises", fallback |-> "empty"],
      [primary |-> "raises", fallback |-> "raises"] }

\* the owner ends up in user_emails (lines 57-59, 67-71)
Resolved(o) == o.primary = "user" \/ (o.primary = "raises" /\ o.fallback = "row")

\* variant: the per-owner handler runs whenever the first lookup raised
FetchRaisedOnPrimary(o) == o.primary = "raises"

\* raise auth_error (76) reaches the per-owner handler (77-80)
FetchRaised(o) == o.primary = "raises" /\ o.fallback = "raises"

Orders(S) == { f \in [1..Cardinality(S) -> S] : \A a, b \in DOMAIN f : f[a] = f[b] => a = b }

RECURSIVE FetchErrors(_, _, _)
FetchErrors(order, res, k) ==
    IF k > Len(order) THEN <<>>
    ELSE (IF FetchRaised(res[order[k]])
            THEN <<Err("fetch_user", order[k], 0)>> ELSE <<>>)
         \o FetchErrors(order, res, k + 1)

\* variant: every owner is looked up, with or without a candidate
UserIdsOfEveryOwner(subs) == Owners

\* user_ids (line 45)
UserIds(subs) == { subs[k].userId : k \in DOMAIN subs }

\* check_and_send_reminders up to its first suspending await (or its end).
\* order is the iteration order of the set user_ids.
CheckStart(origin, t, rows, queryFails, order, res) ==
    LET fresh == [IdleRun EXCEPT !.origin = origin, !.today = t,
                                 !.queryFailed = queryFails]
    IN  IF queryFails THEN OuterHandler(fresh)
        ELSE
          LET subs == CandidateQuery(rows, t)
              queried == [fresh EXCEPT !.subscriptions = subs,
                                       !.stats.checked = Len(subs)]
          IN  IF subs = <<>> THEN ReturnStats(queried)
              ELSE
                LET ids == UserIds(subs)
                    resolved == [queried EXCEPT
                        !.user_ids = ids,
                        !.resolution =
                            [u \in Owners |-> IF u \in ids THEN res[u] ELSE NotCalled],
                        !.lookups =
                            [u \in Owners |->
                                Cardinality({ k \in DOMAIN order : order[k] = u })],
                        !.user_emails = { u \in ids : Resolved(res[u]) },
                        !.stats.errors = @ \o FetchErrors(order, res, 1),
                        !.i = 1]
                IN  ProcessFrom(resolved)

----------------------------------------------------------------------------
(* get_upcoming_reminders (lines 141-175) *)

UpcomingQuery(rows, user, t, days) ==
    SelectSeq(rows, LAMBDA s :
        /\ s.userId = user
        /\ s.isActive /\ s.reminderEnabled
        /\ InWindow(s.nextRenewalDate, t, days))

\* variant: a filter that leaves out what the call before has returned
UpcomingFilterUnseen(subs, t, k) ==
    LET due == SelectSeq(subs, LAMBDA s :
                   /\ ParsesAsDate(s.nextRenewalDate)
                   /\ ShouldSendToday(s, t)
                   /\ \A j \in DOMAIN upcoming.reminders : upcoming.reminders[j] # s.id)
    IN  [raised |-> FALSE, reminders |-> [j \in 1..Len(due) |-> due[j].id]]

\* the filter loop; it has no handler, so a date that does not parse raises
RECURSIVE UpcomingFilter(_, _, _)
UpcomingFilter(subs, t, k) ==
    IF k > Len(subs) THEN [raised |-> FALSE, reminders |-> <<>>]
    ELSE
      LET s == subs[k]
          rest == UpcomingFilter(subs, t, k + 1)
      IN  IF s.nextRenewalDate.form = "absent" THEN rest
          ELSE IF ~ParsesAsDate(s.nextRenewalDate)
            THEN [raised |-> TRUE, reminders |-> <<>>]
          ELSE IF rest.raised THEN rest
          ELSE IF ShouldSendToday(s, t)
            THEN [rest EXCEPT !.reminders = <<s.id>> \o @]
          ELSE rest

GetUpcomingReminders(rows, user, t, days, queryFails) ==
    IF queryFails THEN [raised |-> TRUE, reminders |-> <<>>]
    ELSE UpcomingFilter(UpcomingQuery(rows, user, t, days), t, 1)

----------------------------------------------------------------------------
(* The callers of the check *)

\* POST /reminders/check (reminders.py 9-27): the answer once the check ended
EndpointAnswer(run) ==
    IF run.pc # "done" THEN run
    ELSE [run EXCEPT !.response =
            IF run.outcome = "returned" THEN HTTP_OK ELSE HTTP_ERROR]

\* ReminderScheduler._check_reminders (44-59): logs, returns nothing
SchedulerHandler(run) == run

\* whoever awaits the check continues when it ends
CallerOf(run) ==
    IF run.origin = "endpoint" THEN EndpointAnswer(run) ELSE SchedulerHandler(run)

\* a task slot that runs no check at the moment
Free(r) == runs[r].pc # "sending"

\* a new task takes the first free slot
NewTask(r) == Free(r) /\ \A q \in RunIds : Free(q) => r <= q

InProgress(r) == runs[r].pc = "sending"

\* variant: an executor that never releases an instance
InstancesKept(before, after) == instances

\* the executor's count after a step of slot r
InstancesAfter(before, after) ==
    IF after.origin = "scheduled" /\ after.pc = "done"
         /\ (before.pc = "sending" /\ before.origin = "scheduled")
      THEN instances - 1
      ELSE instances

StartCheck(r, origin) ==
    /\ NewTask(r)
    /\ \/ runs' = [runs EXCEPT ![r] =
             CallerOf(CheckStart(origin, today, store, TRUE, <<>>, <<>>))]
       \/ LET ids == UserIds(CandidateQuery(store, today))
          IN  \E res \in [ids -> ResolveOutcomes], order \in Orders(ids) :
                runs' = [runs EXCEPT ![r] =
                    CallerOf(CheckStart(origin, today, store, FALSE, order, res))]

\* POST /reminders/check
TriggerReminderCheck ==
    /\ \E r \in RunIds : StartCheck(r, "endpoint")
    /\ UNCHANGED <<today, store, smtp_configured, accounts, requests, message, is_running, jobs, pending,
                   scheduler_running, last_call, instances,
                   last_firing, upcoming>>

\* ReminderScheduler.trigger_manual_check (61-64)
TriggerManualCheck ==
    /\ \E r \in RunIds : StartCheck(r, "manual")
    /\ UNCHANGED <<today, store, smtp_configured, accounts, requests, message, is_running, jobs, pending,
                   scheduler_running, last_call, instances,
                   last_firing, upcoming>>

\* the transport call a check is suspended in ends, with or without error
TransportDone(r) ==
    /\ InProgress(r)
    /\ \E ok \in BOOLEAN :
         LET after == CallerOf(AfterSend(runs[r], ok))
         IN  /\ runs' = [runs EXCEPT ![r] = after]
             /\ instances' = InstancesAfter(runs[r], after)
    /\ UNCHANGED <<today, store, smtp_configured, accounts, requests, message, is_running, jobs, pending,
                   scheduler_running, last_call, last_firing, upcoming>>

\* GET /reminders/upcoming (reminders.py 30-53).  Beside the answer the
\* record keeps the day of the call and, when the call before it was made
\* with the same arguments on the same day (repeated), what that call
\* answered.
GetMyUpcomingReminders ==
    /\ \E user \in Owners, days \in {5, DefaultUpcomingDays, ScanWindowDays},
          queryFails \in BOOLEAN :
         LET got == GetUpcomingReminders(store, user, today, days, queryFails)
             again == /\ upcoming.status # 0
                      /\ upcoming.user = user /\ upcoming.days = days
                      /\ upcoming.today = today
         IN  upcoming' = [status |-> IF got.raised THEN HTTP_ERROR ELSE HTTP_OK,
                          user |-> user, days |-> days, queryFailed |-> queryFails,
                          reminders |-> got.reminders,
                          today |-> today,
                          repeated |-> again,
                          priorStatus |-> IF again THEN upcoming.status ELSE 0,
                          prior |-> IF again THEN upcoming.reminders ELSE <<>>]
    /\ UNCHANGED <<today, store, smtp_configured, accounts, requests, message, runs, is_running, jobs,
                   pending, scheduler_running, last_call, instances,
                   last_firing>>

----------------------------------------------------------------------------
(* The scheduler *)

\* The AsyncIOScheduler is the APScheduler library's; what is modelled of it
\* is what its calls in start() and stop() do: add_job on a stopped
\* scheduler keeps the job pending until the scheduler starts, add_job with
\* replace_existing=True replaces a stored job of the same id, start() and
\* shutdown() raise on a scheduler that is already running / not running,
\* and shutdown() empties the in-memory job store and lets a job instance
\* that is executing finish.

Call(op, did) == [op |-> op, did |-> did, prev |-> last_call.did]

HasJob(js, id) == \E k \in DOMAIN js : js[k] = id

\* variant: a job store that does not look at the id
AddJobDuplicating(js, id) == Append(js, id)

\* a job enters the job store, replace_existing=True (start, 24-31)
AddJob(js, id) == IF HasJob(js, id) THEN js ELSE Append(js, id)

\* the pending jobs enter the job store when the scheduler starts
RECURSIVE RealAddJobs(_, _)
RealAddJobs(js, ids) ==
    IF ids = <<>> THEN js ELSE RealAddJobs(AddJob(js, Head(ids)), Tail(ids))

\* variant: start() without its test
StartUnguarded == FALSE

\* if self.is_running (line 19)
StartGuard == is_running

\* ReminderScheduler.start (17-35); raises: self.scheduler.start() fails on
\* a stopped scheduler (it always fails on a running one)
Start(raises) ==
    /\ IF StartGuard
         THEN /\ last_call' = Call("start", "warned")
              /\ UNCHANGED <<is_running, jobs, pending, scheduler_running>>
         ELSE IF scheduler_running
           THEN /\ jobs' = AddJob(jobs, DailyJobId)
                /\ last_call' = Call("start", "raised")
                /\ UNCHANGED <<is_running, pending, scheduler_running>>
         ELSE IF raises
           THEN /\ pending' = Append(pending, DailyJobId)
                /\ last_call' = Call("start", "raised")
                /\ UNCHANGED <<is_running, jobs, scheduler_running>>
         ELSE /\ jobs' = RealAddJobs(jobs, Append(pending, DailyJobId))
              /\ pending' = <<>>
              /\ scheduler_running' = TRUE
              /\ is_running' = TRUE
              /\ last_call' = Call("start", "started")
    /\ UNCHANGED <<today, store, smtp_configured, accounts, requests, message, runs, instances,
                   last_firing, upcoming>>

\* variant: stop() without its test
StopUnguarded == TRUE

\* if self.scheduler.running (line 39)
StopGuard == scheduler_running

\* ReminderScheduler.stop (37-42)
Stop ==
    /\ IF StopGuard
         THEN IF scheduler_running
                THEN /\ scheduler_running' = FALSE
                     /\ jobs' = <<>>
                     /\ is_running' = FALSE
                     /\ last_call' = Call("stop", "shutdown")
                ELSE /\ last_call' = Call("stop", "raised")
                     /\ UNCHANGED <<is_running, jobs, scheduler_running>>
         ELSE /\ is_running' = FALSE
              /\ last_call' = Call("stop", "nothing")
              /\ UNCHANGED <<jobs, scheduler_running>>
    /\ UNCHANGED <<today, store, smtp_configured, accounts, requests, message, runs, pending, instances,
                   last_firing, upcoming>>

\* ReminderScheduler.stop (37-42) when self.scheduler.shutdown() raises on the
\* running scheduler: line 41 is not reached.  The library raises before or
\* after it has left the running state.
StopRaising ==
    /\ StopGuard
    /\ scheduler_running
    /\ \E left \in BOOLEAN : scheduler_running' = ~left
    /\ last_call' = Call("stop", "raised")
    /\ UNCHANGED <<today, store, smtp_configured, accounts, requests, message, runs, is_running, jobs,
                   pending, instances, last_firing, upcoming>>

\* The cron trigger of the daily job fires (start, 24-31).  With
\* max_instances=1 the executor refuses to submit the job while an instance
\* of it runs: that firing is dropped, and the job waits for its next time.
\* variant: a job without an instance limit
NeverAtMaxInstances == FALSE

\* the executor's test before it submits the job
AtMaxInstances == instances >= MaxInstances

DailyTrigger ==
    /\ scheduler_running /\ HasJob(jobs, DailyJobId)
    /\ IF AtMaxInstances
         THEN /\ last_firing' = "skipped"
              /\ UNCHANGED <<runs, instances>>
         ELSE /\ \E r \in RunIds :
                   /\ StartCheck(r, "scheduled")
                   /\ instances' = IF runs'[r].pc = "done" THEN instances
                                                           ELSE instances + 1
              /\ last_firing' = "submitted"
    /\ UNCHANGED <<today, store, smtp_configured, accounts, requests, message, is_running, jobs, pending,
                   scheduler_running, last_call, upcoming>>

----------------------------------------------------------------------------
(* Accounts, plan limits and POST /subscriptions
   (core/dependencies.py, core/plan_limits.py, routers/subscriptions.py) *)

\* user_metadata.account_type of an account: one of the tiers, or "absent"
\* when the metadata has no such key
PlanTiers == {"free", "pro", "family", "personal", "business"}

\* an account as sign-up leaves it
NewAccount == [account_type |-> "absent", business_profile |-> FALSE]

AccountChoices ==
    [account_type : {"absent", "free", "personal", "pro", "business"},
     business_profile : BOOLEAN]

\* X-Account-Context as sent: "" when the request carries no such header,
\* "admin" for a value that is none of the known contexts
Headers == {"", "free", "pro", "family", "business", "admin"}

\* the contexts the header may name (dependencies.py, line 36)
ValidContexts == {"personal", "business", "free", "pro", "family"}

\* metadata.get("account_type", "free")
MetadataAccountType(account) ==
    IF account.account_type = "absent" THEN "free" ELSE account.account_type

\* account_context of get_current_user (lines 31-56).  profile_raises: the
\* query of business_profiles raises.
AccountContext(account, header, profile_raises) ==
    IF header # "" /\ header \in ValidContexts
      THEN IF header = "business" /\ (profile_raises \/ ~account.business_profile)
             THEN MetadataAccountType(account)
             ELSE header
      ELSE IF MetadataAccountType(account) = "personal"
             THEN "free" ELSE MetadataAccountType(account)

\* PLAN_LIMITS.get(account_type, PLAN_LIMITS["free"]): the tier whose limits apply
GetPlanLimits(account_type) ==
    IF account_type \in PlanTiers THEN account_type ELSE "free"

\* plan_limits.get("max_subscriptions"): <<>> for None (unlimited)
MaxSubscriptions(account_type) ==
    CASE GetPlanLimits(account_type) = "free" -> <<FreeMaxSubscriptions>>
      [] GetPlanLimits(account_type) = "personal" -> <<PersonalMaxSubscriptions>>
      [] OTHER -> <<>>

\* select("id", count="exact").eq("userId", current_user["id"])
ExistingCount(rows, user) ==
    Cardinality({ k \in DOMAIN rows : rows[k].userId = user })

\* if max_subscriptions is not None ... existing_count >= max_subscriptions
\* (subscriptions.py 60-74)
LimitReached(rows, user, account_type) ==
    /\ MaxSubscriptions(account_type) # <<>>
    /\ ExistingCount(rows, user) >= MaxSubscriptions(account_type)[1]

NoRequest == [pc |-> "idle", user |-> "", header |-> "", accountType |-> ""]

\* the users that send requests
Requesters == {"u1"}

\* the row a request asks to create: a date inside the window, default lead
NewRow(user) == Row(user, [form |-> "date", day |-> 7], <<>>, TRUE, TRUE)

\* get_current_user (dependencies.py 9-72) for a request with a valid token:
\* the dependency of create_subscription, resolved before the handler runs.
\* (With an invalid token the request ends here with 401.)
GetCurrentUser(q) ==
    /\ requests[q].pc = "idle"
    /\ \E user \in Requesters, header \in Headers, profile_raises \in BOOLEAN :
         requests' = [requests EXCEPT ![q] =
            [pc |-> "authenticated", user |-> user, header |-> header,
             accountType |-> AccountContext(accounts[user], header, profile_raises)]]
    /\ UNCHANGED <<today, store, smtp_configured, accounts, message, runs, is_running,
                   jobs, pending, scheduler_running, last_call, instances,
                   last_firing, upcoming>>

\* create_subscription (subscriptions.py 50-122): the handler has no
\* suspending await, so count and insert are one step of the event loop.
\* store_raises: the count query or the insert raises (answer 400).
CreateSubscription(q) ==
    /\ requests[q].pc = "authenticated"
    /\ ExistingCount(store, requests[q].user) < MaxCreated
    /\ \E store_raises \in BOOLEAN :
         store' =
           IF store_raises
                \/ LimitReached(store, requests[q].user, requests[q].accountType)
             THEN store
             ELSE Append(store, [id |-> Len(store) + 1] @@ NewRow(requests[q].user))
    /\ requests' = [requests EXCEPT ![q] = NoRequest]
    /\ UNCHANGED <<today, smtp_configured, accounts, message, runs, is_running,
                   jobs, pending, scheduler_running, last_call, instances,
                   last_firing, upcoming>>

----------------------------------------------------------------------------
(* Specifications *)

NoAnswer == [status |-> 0, user |-> "", days |-> 0, queryFailed |-> FALSE,
             reminders |-> <<>>, today |-> 0, repeated |-> FALSE,
             priorStatus |-> 0, prior |-> <<>>]

InitWith(stores, accts) ==
    /\ today = 0
    /\ store \in stores
    /\ smtp_configured \in BOOLEAN
    /\ message = NoMessage
    /\ runs = [r \in RunIds |-> IdleRun]
    /\ is_running = FALSE
    /\ jobs = <<>>
    /\ pending = <<>>
    /\ scheduler_running = FALSE
    /\ last_call = [op |-> "none", did |-> "none", prev |-> "none"]
    /\ instances = 0
    /\ last_firing = "none"
    /\ upcoming = NoAnswer
    /\ accounts \in accts
    /\ requests = [q \in RequestIds |-> NoRequest]

\* every account as sign-up leaves it
InitOver(stores) == InitWith(stores, {[u \in Owners |-> NewAccount]})

\* one check, over every kind of row
Init == InitOver(StoresOver(RowChoices))

FirstCheck == runs[1].pc = "idle" /\ TriggerReminderCheck

Next ==
    \/ FirstCheck
    \/ TransportDone(1)

Spec == Init /\ [][Next]_vars

\* one check over rows that are all due today
MailInit == InitOver(StoresOver(MailRows))

MailSpec == MailInit /\ [][Next]_vars

\* one check over rows at the edges of the scan window
WindowInit == InitOver(StoresOver(WindowRows))

WindowSpec == WindowInit /\ [][Next]_vars

\* manual checks, one after or during another, over LookupStore
LookupInit == InitOver({LookupStore})

LookupNext ==
    \/ TriggerReminderCheck
    \/ \E r \in RunIds : TransportDone(r)

LookupSpec == LookupInit /\ [][LookupNext]_vars

\* the two endpoints
ApiInit == InitOver(StoresOver(ApiRows))

ApiNext ==
    \/ FirstCheck
    \/ TransportDone(1)
    \/ GetMyUpcomingReminders

ApiSpec == ApiInit /\ [][ApiNext]_vars

\* send_reminder_email called on its own, as test_reminder_email.py does
SendTestReminder ==
    /\ \E d \in 0..MaxDaysUntil, user_name \in {"", "Test User"},
          category \in BOOLEAN, website \in BOOLEAN,
          amount \in {"number", "null"} :
         message' = BuildMessage(d, user_name, category, website, amount)
    /\ UNCHANGED <<today, store, smtp_configured, accounts, requests, runs, is_running, jobs,
                   pending, scheduler_running, last_call, instances,
                   last_firing, upcoming>>

RenderInit == InitOver({<<>>})

RenderNext == SendTestReminder

RenderSpec == RenderInit /\ [][RenderNext]_vars

\* POST /subscriptions, by a user of any stored account type, next to the
\* rows of another user who is at the limit of the free plan
OthersRows == WithIds([k \in 1..FreeMaxSubscriptions |-> NewRow("u2")])

AccountInit ==
    InitWith({<<>>, OthersRows},
             { a \in [Owners -> AccountChoices] : a["u2"] = NewAccount })

AccountNext ==
    \/ \E q \in RequestIds : GetCurrentUser(q)
    \/ \E q \in RequestIds : CreateSubscription(q)

AccountSpec == AccountInit /\ [][AccountNext]_vars

\* GET /reminders/upcoming alone
UpcomingInit == InitOver(StoresOver(UpcomingRows))

UpcomingNext == GetMyUpcomingReminders

UpcomingSpec == UpcomingInit /\ [][UpcomingNext]_vars

\* the scheduler and the manual triggers side by side
SchedInit == InitOver({DueStore})

\* the start() of the application's startup (main.py lifespan)
FirstStart == ~is_running /\ Start(FALSE)

SchedNext ==
    \/ FirstStart
    \/ DailyTrigger
    \/ TriggerManualCheck
    \/ TriggerReminderCheck
    \/ \E r \in RunIds : TransportDone(r)

SchedSpec == SchedInit /\ [][SchedNext]_vars

\* midnight passes: date.today() gives the next day from now on.  A check
\* that is suspended in a transport call keeps the date it read at line 23.
NextDay ==
    /\ today < MaxDay
    /\ today' = today + 1
    /\ UNCHANGED <<store, smtp_configured, accounts, requests, message, runs, is_running, jobs, pending,
                   scheduler_running, last_call, instances, last_firing,
                   upcoming>>

\* daily and manual checks, one after the other, while the days pass
DaysInit == InitOver({DaysStore})

NoCheckInProgress == \A r \in RunIds : Free(r)

DailyCheck == NoCheckInProgress /\ DailyTrigger

ManualCheck == NoCheckInProgress /\ TriggerManualCheck

DaysNext ==
    \/ FirstStart
    \/ DailyCheck
    \/ ManualCheck
    \/ TransportDone(1)
    \/ NextDay

DaysSpec == DaysInit /\ [][DaysNext]_vars

\* GET /reminders/upcoming, called again and again while the days pass
RereadNext ==
    \/ GetMyUpcomingReminders
    \/ NextDay

RereadSpec == DaysInit /\ [][RereadNext]_vars

\* the life cycle of the scheduler: start() with either outcome of the
\* underlying start, stop(), the daily firing
StartAttempt ==
    \E raises \in BOOLEAN : (raises => Len(pending) < MaxPending) /\ Start(raises)

LifeNext ==
    \/ StartAttempt
    \/ Stop
    \/ DailyTrigger
    \/ \E r \in RunIds : TransportDone(r)

LifeSpec == SchedInit /\ [][LifeNext]_vars

\* the same, with calls of stop() in which the shutdown raises
FaultNext ==
    \/ StartAttempt
    \/ Stop
    \/ StopRaising
    \/ DailyTrigger
    \/ \E r \in RunIds : TransportDone(r)

FaultSpec == SchedInit /\ [][FaultNext]_vars

----------------------------------------------------------------------------
(* Vocabulary of the properties.  These are read off the stored rows and the
   history of the check, not off the service's own computations. *)

\* the check of Spec and ApiSpec
TheRun == runs[1]

\* it ended, and its candidate query had succeeded
Finished == TheRun.pc = "done" /\ ~TheRun.queryFailed

Occurrences(seq, x) == Cardinality({ k \in DOMAIN seq : seq[k] = x })

\* active, reminder-enabled, renewal date within [today, today + 30]
IsCandidate(s) ==
    /\ s.isActive /\ s.reminderEnabled
    /\ s.nextRenewalDate.form # "absent"
    /\ s.nextRenewalDate.day >= TheRun.today
    /\ s.nextRenewalDate.day <= TheRun.today + 30

CandidateRows == { k \in DOMAIN store : IsCandidate(store[k]) }

WellFormed(s) == s.nextRenewalDate.form \in {"date", "timestamp"}

LeadDays(s) == IF s.reminderDaysBefore = <<>> THEN 7 ELSE s.reminderDaysBefore[1]

Eligible(s) ==
    WellFormed(s) /\ s.nextRenewalDate.day - TheRun.today = LeadDays(s)

\* the identity lookups gave an email for the owner
LookupGaveEmail(u) ==
    \/ TheRun.resolution[u].primary = "user"
    \/ TheRun.resolution[u].fallback = "row"

BothLookupsRaised(u) ==
    TheRun.resolution[u].primary = "raises" /\ TheRun.resolution[u].fallback = "raises"

OwnerResolved(s) == LookupGaveEmail(s.userId)

DispatchedFor(s) == Occurrences(TheRun.dispatched, s.id)
FailedFor(s) == Occurrences(TheRun.failedFor, s.id)
ErrorsFor(s) ==
    Cardinality({ k \in DOMAIN TheRun.stats.errors : TheRun.stats.errors[k].sub = s.id })

----------------------------------------------------------------------------
(* C1 *)

----------------------------------------------------------------------------
(* C2, C3: under SchedSpec *)

ChecksInProgress == { r \in RunIds : runs[r].pc = "sending" }

\* C2: at no time are two executions of the reminder check in progress,
\* whether started by the daily job, trigger_manual_check or POST
\* /reminders/check.
C2_OneCheckAtATime == Cardinality(ChecksInProgress) <= 1

ScheduledInProgress(rs) ==
    { r \in RunIds : rs[r].pc = "sending" /\ rs[r].origin = "scheduled" }

\* C3: while a scheduled run is in progress, a firing of the daily trigger
\* starts no second scheduled run and leaves nothing behind that starts one
\* later: a scheduled run begins only in a step that finds none in progress,
\* and a firing that is skipped changes no run.
C3_OverlappingFiringSkipped ==
    [][ /\ Cardinality(ScheduledInProgress(runs')) <= 1
        /\ \A r \in RunIds :
             ( /\ runs'[r] # runs[r]
               /\ runs'[r].origin = "scheduled"
               /\ r \notin ScheduledInProgress(runs) )
             => (ScheduledInProgress(runs) = {} /\ last_firing' = "submitted")
        /\ (last_firing' = "skipped" /\ last_firing # "skipped")
             => (runs' = runs /\ ScheduledInProgress(runs) # {})
      ]_vars

\* a firing was skipped and the scheduled run it met is still in progress
C3_Witness ==
    last_firing = "skipped" /\ ScheduledInProgress(runs) # {}

----------------------------------------------------------------------------
(* C4, C5 *)

\* C4: if the initial candidate query fails, check_and_send_reminders fails as
\* a whole: the error propagates to the caller instead of coming back inside a
\* run summary.
C4_QueryFailurePropagates ==
    (TheRun.pc = "done" /\ TheRun.queryFailed) => TheRun.outcome = "raised"

\* C5 (under ApiSpec): a failing store query makes POST /reminders/check and
\* GET /reminders/upcoming answer 500; a run with only per-item failures is
\* answered with success.
C5_QueryFailureIsServerError ==
    /\ (TheRun.pc = "done" /\ TheRun.origin = "endpoint" /\ TheRun.queryFailed)
         => TheRun.response = 500
    /\ (upcoming.status # 0 /\ upcoming.queryFailed) => upcoming.status = 500
    /\ (Finished /\ TheRun.origin = "endpoint") => TheRun.response = 200

----------------------------------------------------------------------------
(* C6, C7: identity resolution fails for an owner *)

\* C6: when identity resolution fails for an owner the check does not abort;
\* nothing is dispatched for any candidate of that owner and failed is
\* incremented once for each of them; every eligible candidate of a resolved
\* owner is still dispatched in the same run.
C6_UnresolvedOwnerIsolated ==
    Finished =>
      /\ TheRun.outcome = "returned"
      /\ TheRun.stats.failed = Len(TheRun.failedFor)
      /\ \A k \in CandidateRows :
           LET s == store[k]
           IN  /\ ~OwnerResolved(s) => (DispatchedFor(s) = 0 /\ FailedFor(s) = 1)
               /\ (OwnerResolved(s) /\ Eligible(s)) => DispatchedFor(s) = 1

\* one owner unresolved, with an eligible candidate; the eligible candidate
\* of the other owner, later in the batch, was dispatched
C6_Witness ==
    /\ Finished
    /\ \E a, b \in CandidateRows :
         /\ a < b
         /\ ~OwnerResolved(store[a]) /\ Eligible(store[a])
         /\ FailedFor(store[a]) = 1
         /\ OwnerResolved(store[b]) /\ Eligible(store[b])
         /\ DispatchedFor(store[b]) = 1

CandidatesOf(u) == { k \in CandidateRows : store[k].userId = u }
EligibleOf(u) == { k \in CandidatesOf(u) : Eligible(store[k]) }

\* apart from the lookups of owner u nothing fails: every other candidate has
\* a resolved owner and a date that parses, and every transport call succeeds
NothingElseFails(u) ==
    /\ \A k \in CandidateRows \ CandidatesOf(u) :
         OwnerResolved(store[k]) /\ WellFormed(store[k])
    /\ \A j \in DOMAIN TheRun.results : TheRun.results[j]
    /\ Len(TheRun.results) = Len(TheRun.dispatched)

\* C7 as stated: resolution fails for an owner with exactly 2 eligible
\* subscriptions and nothing else fails: failed = 2 and 2 (or 1) entries in
\* errors, not more.
C7_AtMostTwoErrorEntries ==
    \A u \in Owners :
      ( /\ Finished
        /\ ~LookupGaveEmail(u)
        /\ Cardinality(EligibleOf(u)) = 2
        /\ NothingElseFails(u) )
      => /\ TheRun.outcome = "returned"
         /\ TheRun.stats.failed = 2
         /\ Len(TheRun.stats.errors) \in {1, 2}

\* C7 amended: resolution fails for an owner with exactly 2 eligible
\* subscriptions and no other candidate, and nothing else fails: the run
\* returns with failed = 2 and with the 2 per-subscription entries in errors,
\* preceded by one per-owner entry exactly when both lookups raised.
C7_TwoOrThreeErrorEntries ==
    \A u \in Owners :
      ( /\ Finished
        /\ ~LookupGaveEmail(u)
        /\ Cardinality(EligibleOf(u)) = 2
        /\ CandidatesOf(u) = EligibleOf(u)
        /\ NothingElseFails(u) )
      => /\ TheRun.outcome = "returned"
         /\ TheRun.stats.failed = 2
         /\ Len(TheRun.stats.errors) = 2 + (IF BothLookupsRaised(u) THEN 1 ELSE 0)
         /\ \A k \in EligibleOf(u) : ErrorsFor(store[k]) = 1

\* both lookups of the owner raised: three entries
C7_Witness ==
    \E u \in Owners :
      /\ Finished
      /\ BothLookupsRaised(u)
      /\ Cardinality(EligibleOf(u)) = 2
      /\ CandidatesOf(u) = EligibleOf(u)
      /\ NothingElseFails(u)
      /\ TheRun.stats.failed = 2
      /\ Len(TheRun.stats.errors) = 3

----------------------------------------------------------------------------
(* C8, C9, C10 *)

\* C8: a dispatch that fails is caught for that item only: failed is
\* incremented by one and one error entry is appended for it, the run does
\* not raise, and every later candidate is still evaluated and, if eligible,
\* dispatched.
C8_DispatchFailureIsolated ==
    Finished =>
      /\ TheRun.outcome = "returned"
      /\ Len(TheRun.results) = Len(TheRun.dispatched)
      /\ TheRun.stats.sent =
           Cardinality({ j \in DOMAIN TheRun.results : TheRun.results[j] })
      /\ \A j \in DOMAIN TheRun.dispatched :
           ~TheRun.results[j] =>
             LET f == store[TheRun.dispatched[j]]
             IN  /\ FailedFor(f) = 1
                 /\ ErrorsFor(f) = 1
                 /\ \A k \in CandidateRows :
                      (k > f.id /\ OwnerResolved(store[k]) /\ Eligible(store[k]))
                        => DispatchedFor(store[k]) = 1

\* the first dispatch failed in the transport, the second one succeeded
C8_Witness ==
    /\ Finished
    /\ TheRun.transportCalls = 2
    /\ Len(TheRun.results) = 2
    /\ ~TheRun.results[1] /\ TheRun.results[2]
    /\ TheRun.stats.failed = 1 /\ TheRun.stats.sent = 1

\* C9: a candidate whose nextRenewalDate cannot be parsed is skipped: nothing
\* is dispatched for it and failed is not incremented for it.
C9_UnparsableDateNotCounted ==
    Finished =>
      \A k \in CandidateRows :
        (OwnerResolved(store[k]) /\ ~WellFormed(store[k]))
          => (DispatchedFor(store[k]) = 0 /\ FailedFor(store[k]) = 0)

NoneEligible == \A k \in CandidateRows : ~Eligible(store[k])

UnresolvedCandidates == { k \in CandidateRows : ~OwnerResolved(store[k]) }
UnparsableCandidates ==
    { k \in CandidateRows : OwnerResolved(store[k]) /\ ~WellFormed(store[k]) }
OwnersThatRaised == { u \in Owners : BothLookupsRaised(u) }

----------------------------------------------------------------------------
(* C11, C12: the dispatch of one reminder *)

ResolvedEligible == { k \in CandidateRows : OwnerResolved(store[k]) /\ Eligible(store[k]) }

AllReturnedFalse ==
    /\ Len(TheRun.results) = Len(TheRun.dispatched)
    /\ \A j \in DOMAIN TheRun.results : ~TheRun.results[j]

\* C11 as stated: without transport credentials every dispatch attempt of a
\* run returns False, without raising and without a call of the mail
\* transport, and the run ends with sent = 0 and failed = the number of
\* eligible candidates.
C11_FailedIsEligibleCount ==
    (Finished /\ ~smtp_configured) =>
      /\ TheRun.outcome = "returned"
      /\ TheRun.transportCalls = 0
      /\ AllReturnedFalse
      /\ TheRun.stats.sent = 0
      /\ TheRun.stats.failed =
           Cardinality({ k \in CandidateRows : Eligible(store[k]) })

\* C11 amended: without transport credentials every dispatch attempt of a run
\* returns False, without raising and without a call of the mail transport;
\* there is one attempt for each eligible candidate of a resolved owner, and
\* the run ends with sent = 0 and failed = these attempts + the candidates of
\* unresolved owners + the resolved candidates whose date does not parse.
C11_NoCredentialsNoTransport ==
    (Finished /\ ~smtp_configured) =>
      /\ TheRun.outcome = "returned"
      /\ TheRun.transportCalls = 0
      /\ TheRun.transported = <<>>
      /\ AllReturnedFalse
      /\ \A k \in CandidateRows :
           DispatchedFor(store[k]) = IF k \in ResolvedEligible THEN 1 ELSE 0
      /\ TheRun.stats.sent = 0
      /\ TheRun.stats.failed =
           Cardinality(ResolvedEligible) + Cardinality(UnresolvedCandidates)
             + Cardinality(UnparsableCandidates)

\* no credentials, two eligible candidates of resolved owners: two attempts,
\* both failed, no transport call
C11_Witness ==
    /\ Finished /\ ~smtp_configured
    /\ Cardinality(ResolvedEligible) = 2
    /\ Len(TheRun.dispatched) = 2
    /\ TheRun.results = <<FALSE, FALSE>>
    /\ TheRun.transportCalls = 0
    /\ TheRun.stats.sent = 0 /\ TheRun.stats.failed = 2

\* the transport call made for row k ended, without error / with an error
TransportSucceeded(k) ==
    \E m \in DOMAIN TheRun.transported : TheRun.transported[m] = [sub |-> k, ok |-> TRUE]
TransportFailed(k) ==
    \E m \in DOMAIN TheRun.transported : TheRun.transported[m] = [sub |-> k, ok |-> FALSE]

HasNoAmount(k) == store[k].amount # "number"

\* C12 (under MailSpec): send_reminder_email never raises to the loop: every
\* invocation that ended gave a return value; it gave False when building the
\* message failed or when the transport call ended with an error, and True
\* only when the transport call made for it had ended without error.
C12_SendNeverRaises ==
    /\ Len(TheRun.results) <= Len(TheRun.dispatched)
    /\ TheRun.pc = "sending" => Len(TheRun.results) = Len(TheRun.dispatched) - 1
    /\ Finished =>
         /\ TheRun.outcome = "returned"
         /\ Len(TheRun.results) = Len(TheRun.dispatched)
    /\ \A j \in DOMAIN TheRun.results :
         LET k == TheRun.dispatched[j]
         IN  /\ TheRun.results[j] => TransportSucceeded(k)
             /\ (HasNoAmount(k) \/ TransportFailed(k)) => ~TheRun.results[j]

\* with credentials: the message of one row could not be built, the
\* transport call of another ended with an error; both invocations returned
\* False
C12_Witness ==
    /\ Finished /\ smtp_configured
    /\ Len(TheRun.dispatched) = 2
    /\ TheRun.results = <<FALSE, FALSE>>
    /\ \E a, b \in DOMAIN store :
         /\ HasNoAmount(a) /\ DispatchedFor(store[a]) = 1
         /\ TransportFailed(b) /\ DispatchedFor(store[b]) = 1

----------------------------------------------------------------------------
(* C13 - C16: the life cycle of the scheduler, under LifeSpec *)

\* a step is a call of start() / stop() when it leaves a new record of one
StartCalled == last_call'.op = "start" /\ last_call' # last_call
StopCalled == last_call'.op = "stop" /\ last_call' # last_call

DailyJobs == Occurrences(jobs, "daily_reminder_check")
             + Occurrences(pending, "daily_reminder_check")

\* slots in which the step begins a scheduled check
ScheduledBegun ==
    { r \in RunIds : /\ runs[r].pc # "sending"
                     /\ runs'[r] # runs[r]
                     /\ runs'[r].origin = "scheduled" }

\* C13: a call of start() while the scheduler is running changes nothing: it
\* does not raise, the state stays running, no job is registered and the
\* underlying scheduler is not started again.
C13_StartWhileRunningIsNoOp ==
    [][ (is_running /\ StartCalled) =>
          /\ last_call'.did = "warned"
          /\ is_running'
          /\ scheduler_running' = scheduler_running
          /\ jobs' = jobs /\ pending' = pending
          /\ runs' = runs
      ]_vars

\* start() was called on the running scheduler: it is running with its one job
C13_Witness ==
    /\ last_call = [op |-> "start", did |-> "warned", prev |-> "started"]
    /\ is_running /\ scheduler_running
    /\ DailyJobs = 1

\* C14: a call of stop() never raises and leaves the scheduler stopped,
\* whether it was running or already stopped (or never started); from then
\* until the next call of start() it stays stopped and no firing of the
\* daily trigger begins a check.
C14_StopIsSafe ==
    [][ /\ StopCalled =>
             /\ last_call'.did # "raised"
             /\ ~is_running' /\ ~scheduler_running'
        /\ (last_call.op = "stop" /\ last_call' = last_call) =>
             /\ ~is_running' /\ ~scheduler_running'
             /\ ScheduledBegun = {}
             /\ last_firing' = last_firing
      ]_vars

\* stop() was called on the running scheduler and then once more
C14_Witness ==
    /\ last_call = [op |-> "stop", did |-> "nothing", prev |-> "shutdown"]
    /\ ~is_running /\ ~scheduler_running

\* a check that ended in failure: its query failed, or it counted a failure
FailedCheck(run) ==
    run.pc = "done" /\ (run.queryFailed \/ run.stats.failed > 0)

\* slots in which the step ends a scheduled check
ScheduledEnded ==
    { r \in RunIds : /\ runs'[r] # runs[r]
                     /\ runs'[r].origin = "scheduled"
                     /\ runs'[r].pc = "done" }

\* C15: a scheduled check that fails does not stop the schedule: the check
\* ends without raising out of _check_reminders; the step in which it ends
\* leaves the scheduler running with its job; and a later firing of the daily
\* trigger is dropped only while a scheduled check is in progress, so with
\* none in progress the executor holds no instance and the firing begins a
\* new check.
C15_FailedCheckKeepsSchedule ==
    [][ /\ \A r \in ScheduledEnded :
             /\ runs'[r].outcome = "returned"
             /\ FailedCheck(runs'[r]) =>
                  /\ is_running' = is_running
                  /\ scheduler_running' = scheduler_running
                  /\ jobs' = jobs
        /\ ScheduledInProgress(runs') = {} => instances' = 0
        /\ (last_firing' = "skipped" /\ last_firing # "skipped")
             => ScheduledInProgress(runs) # {}
        /\ (last_firing' = "submitted" /\ <<last_firing, runs>> # <<last_firing', runs'>>
              /\ ScheduledBegun # {})
             => (scheduler_running /\ ScheduledInProgress(runs) = {})
      ]_vars

\* a scheduled check ended in failure after a transport call; the scheduler
\* is running with its job and the executor holds no instance of it
C15_Witness ==
    /\ \E r \in RunIds :
         /\ runs[r].origin = "scheduled" /\ FailedCheck(runs[r])
         /\ runs[r].transportCalls = 1
    /\ ScheduledInProgress(runs) = {}
    /\ is_running /\ scheduler_running /\ DailyJobs = 1
    /\ instances = 0

----------------------------------------------------------------------------
(* C17: under DaysSpec, where the rows of the store never change *)

\* the calendar day on which daysUntil of a row equals its lead days
ReminderDay(s) == s.nextRenewalDate.day - LeadDays(s)

\* C17 as stated: whatever daily and manual runs there are, a reminder for a
\* subscription is dispatched only on the calendar day on which its daysUntil
\* equals its lead days (so never by a later run, if none ran on that day).
C17_DispatchedOnlyOnReminderDay ==
    \A r \in RunIds : \A j \in DOMAIN runs[r].dispatched :
      runs[r].dispatchedOn[j] = ReminderDay(store[runs[r].dispatched[j]])

\* C17 amended: a reminder for a subscription is dispatched only by a run
\* that began on the calendar day on which its daysUntil equals its lead
\* days, on that day or, when the run is still in progress at midnight,
\* after it; a run that begins on any other day dispatches none, so if no
\* run begins on that day no later run dispatches a reminder for that
\* renewal date.
C17_DispatchedOnlyByRunOfReminderDay ==
    \A r \in RunIds :
      /\ Len(runs[r].dispatchedOn) = Len(runs[r].dispatched)
      /\ \A j \in DOMAIN runs[r].dispatched :
           /\ runs[r].today = ReminderDay(store[runs[r].dispatched[j]])
           /\ runs[r].dispatchedOn[j] >= runs[r].today
           /\ runs[r].dispatchedOn[j] <= today

\* a run that began on the reminder day of both rows dispatched the first
\* on that day and the second after midnight
C17_Witness ==
    \E r \in RunIds :
      /\ runs[r].pc = "done"
      /\ runs[r].today = 1
      /\ runs[r].dispatched = <<1, 2>>
      /\ runs[r].dispatchedOn = <<1, 2>>
      /\ ReminderDay(store[1]) = 1 /\ ReminderDay(store[2]) = 1

----------------------------------------------------------------------------
(* C18, C19 (under UpcomingSpec) and C20 (under RereadSpec):
   GET /reminders/upcoming *)

Answered == upcoming.status = 200

Returned == { upcoming.reminders[j] : j \in DOMAIN upcoming.reminders }

\* an active, reminder-enabled row of the user the call was made for
OwnRow(k) ==
    /\ store[k].userId = upcoming.user
    /\ store[k].isActive /\ store[k].reminderEnabled

\* renewal date in [today, today + days] of the call
RenewsWithin(k) ==
    /\ store[k].nextRenewalDate.form # "absent"
    /\ store[k].nextRenewalDate.day >= upcoming.today
    /\ store[k].nextRenewalDate.day <= upcoming.today + upcoming.days

\* C18: get_upcoming_reminders(user, days) returns exactly the rows of that
\* user that are active and reminder-enabled, renew within
\* [today, today + days] inclusive and pass the exact-day test of the run
\* (daysUntil = reminderDaysBefore), each once, and no row of another owner.
C18_UpcomingIsExactDayInWindow ==
    Answered =>
      /\ Returned =
           { k \in DOMAIN store :
               /\ OwnRow(k) /\ RenewsWithin(k)
               /\ WellFormed(store[k])
               /\ store[k].nextRenewalDate.day - upcoming.today = LeadDays(store[k]) }
      /\ Len(upcoming.reminders) = Cardinality(Returned)
      /\ \A k \in Returned : store[k].userId = upcoming.user

\* C19: get_upcoming_reminders(user, days) returns every active,
\* reminder-enabled row of the user whose reminder day (renewal date minus
\* reminderDaysBefore) lies in [today, today + days], not only those whose
\* reminder is due today.
C19_UpcomingCoversNextDays ==
    Answered =>
      \A k \in DOMAIN store :
        ( /\ OwnRow(k) /\ WellFormed(store[k])
          /\ ReminderDay(store[k]) >= upcoming.today
          /\ ReminderDay(store[k]) <= upcoming.today + upcoming.days )
        => k \in Returned

----------------------------------------------------------------------------
(* C21, C22: the wording of the message, under RenderSpec *)

Texts == { message.subject, message.text, message.html }

\* word w directly followed by word v
Says(text, w, v) ==
    \E i \in 1..(Len(text) - 1) : text[i] = w /\ text[i + 1] = v

SaysRenewsToday(text) ==
    \E w \in {"renews", "Renews"}, v \in {"today", "today!"} : Says(text, w, v)

\* C21: a message built for daysUntil = 0 says "renews today" in its subject,
\* its plain-text body and its rich body, and none of them says "0 days".
C21_RenewsTodayPhrasing ==
    (message.built /\ message.days_until = 0) =>
      \A text \in Texts :
        SaysRenewsToday(text) /\ ~Says(text, "0", "days")

\* C22: a message built for daysUntil = 1 says "1 day", and one built for
\* daysUntil = n >= 2 says "n days", in its subject, its plain-text body and
\* its rich body alike.
C22_SingularAndPlural ==
    (message.built /\ message.days_until >= 1) =>
      \A text \in Texts :
        Says(text, ToString(message.days_until),
             IF message.days_until = 1 THEN "day" ELSE "days")

----------------------------------------------------------------------------
(* C23, C25: the scan window, under WindowSpec *)

\* C23: checked of the returned summary is the number of rows that are
\* active and reminder-enabled and renew within [today, today + 30]
\* inclusive, whatever was eligible, sent or failed.
C23_CheckedCountsWindow ==
    Finished => TheRun.stats.checked = Cardinality(CandidateRows)

\* the rows the query of the run returned
Queried == { TheRun.subscriptions[j].id : j \in DOMAIN TheRun.subscriptions }

\* C25: every active, reminder-enabled row with a lead that the API accepts
\* is among the candidates of the run on the day its daysUntil equals its
\* lead days: the 30-day window leaves out no row with a long lead.
C25_WindowCoversEveryLead ==
    Finished =>
      \A k \in DOMAIN store :
        ( /\ store[k].isActive /\ store[k].reminderEnabled
          /\ LeadDays(store[k]) >= 1
          /\ Eligible(store[k]) )
        => k \in Queried

----------------------------------------------------------------------------
(* C24: the identity lookups of a run, under LookupSpec *)

\* the run of slot r got past its candidate query
Looked(r) == runs[r].pc # "idle" /\ ~runs[r].queryFailed

\* the owner has a candidate on the day the run of slot r began
HasCandidate(r, u) ==
    \E k \in DOMAIN store :
      /\ store[k].userId = u
      /\ store[k].isActive /\ store[k].reminderEnabled
      /\ store[k].nextRenewalDate.form # "absent"
      /\ store[k].nextRenewalDate.day >= runs[r].today
      /\ store[k].nextRenewalDate.day <= runs[r].today + 30

GaveEmail(r, u) ==
    runs[r].resolution[u].primary = "user" \/ runs[r].resolution[u].fallback = "row"

\* C24: a run looks up every owner that has a candidate exactly once,
\* whatever the number of that owner's candidates, and no other owner; the
\* emails a run knows are those its own lookups gave, never those of
\* another run.
C24_EachOwnerLookedUpOnce ==
    \A r \in RunIds :
      Looked(r) =>
        \A u \in Owners :
          /\ runs[r].lookups[u] = (IF HasCandidate(r, u) THEN 1 ELSE 0)
          /\ (runs[r].resolution[u].primary = "not_called") <=> ~HasCandidate(r, u)
          /\ (u \in runs[r].user_emails) <=> GaveEmail(r, u)

\* two runs over the two candidates of u1, each of which looked u1 up once
\* and u2 never: one got the email, the other did not
C24_Witness ==
    /\ Cardinality({ k \in DOMAIN store : HasCandidate(1, store[k].userId) }) = 2
    /\ Looked(1) /\ Looked(2)
    /\ runs[1].lookups = [u \in Owners |-> IF u = "u1" THEN 1 ELSE 0]
    /\ runs[2].lookups = runs[1].lookups
    /\ "u1" \in runs[1].user_emails
    /\ "u1" \notin runs[2].user_emails

----------------------------------------------------------------------------
(* C26: duplicate reminders, under SchedSpec *)

\* the transport calls, of any run, that delivered a reminder for row k
Delivered(k) ==
    { <<r, m>> \in RunIds \X (1..Len(store) * MaxRuns) :
        /\ m \in DOMAIN runs[r].transported
        /\ runs[r].transported[m] = [sub |-> k, ok |-> TRUE] }

\* C26: over all scheduled runs and manual triggers, in any order or
\* interleaving, at most one reminder is delivered for a subscription and
\* its renewal date.
C26_NoDuplicateSend ==
    \A k \in DOMAIN store : Cardinality(Delivered(k)) <= 1

----------------------------------------------------------------------------
(* C27: the counters of a run summary, under Spec *)

\* the transport calls of the run that delivered a reminder for row k
DeliveredFor(k) ==
    Cardinality({ m \in DOMAIN TheRun.transported :
                    TheRun.transported[m] = [sub |-> k, ok |-> TRUE] })

\* C27: in every returned run summary sent + failed <= checked and
\* failed <= the number of error entries: every increment of failed and of
\* sent belongs to one candidate, and no candidate is counted twice or in
\* both.
C27_CountersBounded ==
    TheRun.pc = "done" =>
      /\ TheRun.stats.sent + TheRun.stats.failed <= TheRun.stats.checked
      /\ TheRun.stats.failed <= Len(TheRun.stats.errors)
      /\ TheRun.stats.failed = Len(TheRun.failedFor)
      /\ \A j \in DOMAIN TheRun.failedFor : TheRun.failedFor[j] \in CandidateRows
      /\ \A k \in DOMAIN store : FailedFor(store[k]) + DeliveredFor(k) <= 1

\* one candidate was sent, the other failed after the lookup of its owner
\* had raised: two candidates, one of each counter, two error entries
C27_Witness ==
    /\ TheRun.pc = "done"
    /\ TheRun.stats.checked = 2
    /\ TheRun.stats.sent = 1
    /\ TheRun.stats.failed = 1
    /\ Len(TheRun.stats.errors) = 2

----------------------------------------------------------------------------
(* C28: the flag of the ReminderScheduler, under FaultSpec *)

\* C28: after any calls of start() and stop(), also those in which the
\* start or the shutdown of the underlying scheduler raises, is_running is
\* true exactly when the underlying scheduler is running.
C28_FlagMatchesScheduler == is_running <=> scheduler_running

----------------------------------------------------------------------------
(* C29, C30: plan limits and the account type, under AccountSpec *)

\* the user's stored plan allows at most five subscriptions
OnLimitedPlan(u) == accounts[u].account_type \in {"absent", "free", "personal"}

RowsOf(u) == Cardinality({ k \in DOMAIN store : store[k].userId = u })

\* C29: whatever create_subscription requests a user on a plan with
\* max_subscriptions = 5 sends, one after another or together, the store
\* never holds more than 5 subscriptions of that user.
C29_PlanLimitHolds ==
    \A u \in Owners : OnLimitedPlan(u) => RowsOf(u) <= 5

\* the paid tiers
HigherTiers == {"pro", "family", "business"}

\* C30: for a user whose stored account type is free and who has no
\* business profile, get_current_user returns none of pro, family and
\* business, whatever the X-Account-Context header says.
C30_NoTierAboveEntitlement ==
    \A q \in RequestIds :
      ( /\ requests[q].pc = "authenticated"
        /\ accounts[requests[q].user].account_type \in {"absent", "free"}
        /\ ~accounts[requests[q].user].business_profile )
      => requests[q].accountType \notin HigherTiers

====
